---- MODULE Spec2Model ----
(***************************************************************************)
(* The saga engine of brigadier/foreman: one message turn of               *)
(* SagaEventsHandler.Handle, driven by subscriber.processPackage, over the *)
(* SQL saga store (mysqlStore.Update / GetById) and the per-saga mutex.    *)
(*                                                                         *)
(* Every envelope the broker holds is either ready for delivery, in a     *)
(* turn (delivered, unacked) or acked.  A turn is the run of              *)
(* processPackage for one delivery; its steps are the suspension points   *)
(* of Handle: Lock, GetById, the saga's event handler, each Send,         *)
(* Update, the child-completed Send, the deferred Release, and the Ack.   *)
(***************************************************************************)
EXTENDS Integers, Sequences, FiniteSets, TLC

\* ------------------------------------------------------------------ bounds
\* total number of broker deliveries (turns) in one behaviour
MaxTurns == 3
\* most deliveries a saga event handler submits in one turn
MaxDeliveries == 2

\* ------------------------------------------------------------ the universe
NoUID == ""
NoHolder == "nobody"
NoErr == "nil"

\* The sagas the store holds when the subscriber starts, and the broker's
\* envelopes. m1 is an event the stored saga s1 has a handler for; m2 is an
\* event with or without a handler, for s1, for a saga the store does not
\* hold (s9), or without a saga_uid header.
StoredSagas == {"s1"}
SagaUIDs == {"s1", "s9"}
Envelopes == {"m1", "m2"}
GroupKinds == {"Foo", "Bar"}

\* saga.EventHandlers(): the (Group, Kind)s the saga has a handler for
EventHandlers == {"Foo"}

\* The saga status machine (section 4.5 of the specification).
Statuses == {"Created", "InProgress", "Compensating", "Completed", "Failed", "Recovering"}
Terminal == {"Completed", "Failed"}

\* status.Completed()
StatusCompleted(st) == st = "Completed"

\* Progress() that sets InProgress whatever the status is.
Progress_Unconditional(st) == "InProgress"

\* sagaInstance.Progress(): InProgress -> InProgress, Recovering -> InProgress;
\* from any other status the transition fails and the status is unchanged.
Progress(st) == IF st \in {"InProgress", "Recovering"} THEN "InProgress" ELSE st

\* sagaInstance.Complete()
Complete(st) == IF st \in {"InProgress", "Compensating", "Recovering"} THEN "Completed" ELSE st

\* sagaInstance.Fail()
Fail(st) == IF st \in {"InProgress", "Compensating", "Recovering"} THEN "Failed" ELSE st

\* sagaInstance.Compensate()
Compensate(st) == IF st = "InProgress" THEN "Compensating" ELSE st

\* sagaInstance.Recover()
Recover(st) == IF st \notin Terminal THEN "Recovering" ELSE st

\* What a saga's event handler may do to the instance it is given.
HandlerOps == {"None", "Complete", "Fail", "Compensate", "Recover"}

ApplyOp(op, st) ==
  CASE op = "Complete" -> Complete(st)
    [] op = "Fail" -> Fail(st)
    [] op = "Compensate" -> Compensate(st)
    [] op = "Recover" -> Recover(st)
    [] OTHER -> st


\* ------------------------------------------------------------------- state
VARIABLES
  bstate,       \* broker: envelope -> "ready" | "unacked" | "acked"
  turns,        \* deliveries the broker has made so far
  turn,         \* envelope -> the turn (processPackage run) of its last delivery,
                \* with the messages execCtx.Send accepted in it (out)
  lockHolder,   \* the mutex: saga UID -> the turn holding it, or NoHolder
  sagaRow,      \* table saga: saga id -> [status, parentID]
  sagaHistory,  \* table saga_history: saga id -> rows in created_at order
  stat,         \* envelope -> what its turns have done so far
  headers,      \* envelope -> its saga_uid header (NoUID: none)
  kinds         \* envelope -> the (Group, Kind) of its payload

vars == <<bstate, turns, turn, lockHolder, sagaRow, sagaHistory, stat, headers, kinds>>

\* The subscriber's state (the Run loop, the dispatcher's workers, Stop).
VARIABLES
  loop,      \* Run: [pc, pkg]: where the loop is and the package it holds; it
             \* holds a worker slot at "wait" and "submit"
  pool,      \* len(workersQueue): the idle worker slots in the dispatcher's queue
  pkgs,      \* package -> [st, processErr, acks, submits]; st: "broker",
             \* "channel", "taken" (by Run), "process" and "ack" (processPackage
             \* running on a worker), "finished" (the task returned), "returned"
             \* (the worker's slot is back in the queue)
  env,       \* [ctxDone, signal, shutdownExpired, consumeOpen]
  stop       \* the Stop call: [pc, busyAtCall, waited, disconnects]

subvars == <<loop, pool, pkgs, env, stop>>

\* One call of mysqlStore.Update on its own, and one encode and decode of the
\* JSON codec.
VARIABLES
  db,        \* [pc, rows, events, before]: the persisted history rows of a saga,
             \* instance.HistoryEvents(), and the ids persisted before the call
  codec      \* [pc, original, instance, wire, decoded]

\* What a step of the saga engine, of the subscriber, of the store call and
\* of the codec leaves alone.
nonSaga == <<subvars, db, codec>>
nonSub == <<vars, db, codec>>
nonDb == <<vars, subvars, codec>>
nonCodec == <<vars, subvars, db>>

\* msg.Payload().GroupKind()
PayloadGK(m) == kinds[m]

\* sagaUIDSvc.ExtractSagaUID(msg.Headers())
HeaderSagaUID(m) == headers[m]

\* The headers of a message no turn holds.
NoHeaders == [saga_uid |-> NoUID, user |-> ""]

\* msg.Headers() of the envelope as the broker delivers it: the saga_uid
\* header and a header of the sender's own.
IncomingHeaders(m) == [saga_uid |-> headers[m], user |-> m]

\* sagaUIDSvc.AddSagaId(headers, uid): the saga_uid key of the map it is
\* given is set.
AddSagaId(h, uid) == [h EXCEPT !.saga_uid = uid]

\* A turn before its first step.
NewTurn(attempt) ==
  [ pc |-> "lock", attempt |-> attempt, ctxLive |-> TRUE,
    msgHeaders |-> NoHeaders,
    locked |-> FALSE, releases |-> 0,
    loaded |-> "-", status |-> "-", parentID |-> NoUID, history |-> <<>>,
    handler |-> "-", deliveries |-> 0, sent |-> 0, out |-> <<>>,
    updateCalled |-> FALSE, updated |-> FALSE, childSent |-> FALSE,
    err |-> NoErr ]

IdleTurn == [NewTurn(0) EXCEPT !.pc = "idle", !.ctxLive = FALSE]

\* The positions of Handle between a successful Lock and the deferred Release.
InCritical == {"load", "handle", "send", "update", "child", "release"}

Init ==
  /\ bstate = [m \in Envelopes |-> "ready"]
  /\ turns = 0
  /\ turn = [m \in Envelopes |-> IdleTurn]
  /\ lockHolder = [u \in SagaUIDs |-> NoHolder]
  /\ \E parent \in {NoUID, "s0"} :
       sagaRow = [s \in StoredSagas |-> [status |-> "InProgress", parentID |-> parent]]
  /\ sagaHistory = [s \in StoredSagas |-> <<>>]
  /\ stat = [m \in Envelopes |-> [updates |-> 0, handlerErrs |-> 0]]
  /\ \E h \in SagaUIDs \cup {NoUID} :
       headers = [m \in Envelopes |-> IF m = "m2" THEN h ELSE "s1"]
  /\ \E gk \in GroupKinds :
       kinds = [m \in Envelopes |-> IF m = "m2" THEN gk ELSE "Foo"]

\* ------------------------------------------------------------- the history
\* sagaInstance.AddHistoryEvent: a new event with an id of its own, tagged
\* with the instance's status, the origin and the trace UID of the message.
AddHistoryEvent(history, id, payload, origin, traceUID, status) ==
  Append(history, [id |-> id, payload |-> payload, origin |-> origin,
                   traceUID |-> traceUID, status |-> status])

\* The history of the instance after the turn's events are appended:
\* the received event, then one event per delivery.
RECURSIVE AddDeliveryEvents(_, _, _, _, _, _)
AddDeliveryEvents(history, m, attempt, status, i, n) ==
  IF i > n THEN history
  ELSE AddDeliveryEvents(
         AddHistoryEvent(history, <<m, attempt, i>>, <<"delivery", i>>, "", "", status),
         m, attempt, status, i + 1, n)

\* The turn's events appended with the deliveries before the received event.
TurnHistory_DeliveriesFirst(m, t) ==
  AddHistoryEvent(
    AddDeliveryEvents(t.history, m, t.attempt, t.status, 1, t.deliveries),
    <<m, t.attempt, 0>>, PayloadGK(m), "queue", m, t.status)

TurnHistory(m, t) ==
  AddDeliveryEvents(
    AddHistoryEvent(t.history, <<m, t.attempt, 0>>, PayloadGK(m), "queue", m, t.status),
    m, t.attempt, t.status, 1, t.deliveries)

\* ---------------------------------------------------------------- the store
HistoryIds(rows) == {rows[i].id : i \in DOMAIN rows}

\* Update that rewrites the saga's history with the rows it inserts.
InsertHistory_OnlyNew(rows, events) ==
  LET ids == HistoryIds(rows)
  IN  SelectSeq(events, LAMBDA e : e.id \notin ids)

\* mysqlStore.Update, the history part: the rows after the inserts.
InsertHistory(rows, events) ==
  LET ids == HistoryIds(rows)
  IN  IF Cardinality(ids) < Len(events)
      THEN rows \o SelectSeq(events, LAMBDA e : e.id \notin ids)
      ELSE rows

\* mysqlStore.Update, committed: the saga row overwritten, the history inserted.
StoreUpdate(uid, status, parentID, events) ==
  /\ sagaRow' = [sagaRow EXCEPT ![uid] = [status |-> status, parentID |-> parentID]]
  /\ sagaHistory' = [sagaHistory EXCEPT ![uid] = InsertHistory(@, events)]

\* ---------------------------------------------------------------- the mutex
\* Mutex.Lock can return the lock to this caller now.
MutexFree(uid) == lockHolder[uid] = NoHolder

\* Mutex.Release by the holder.
MutexRelease(uid, m) ==
  lockHolder' = [lockHolder EXCEPT ![uid] = IF @ = m THEN NoHolder ELSE @]

\* ------------------------------------------------------------------ actions
\* subscriber.Run hands the next envelope to a worker: processPackage starts.
Deliver(m) ==
  /\ bstate[m] = "ready"
  /\ turns < MaxTurns
  /\ bstate' = [bstate EXCEPT ![m] = "unacked"]
  /\ turns' = turns + 1
  /\ turn' = [turn EXCEPT ![m] = [NewTurn(turn[m].attempt + 1) EXCEPT
                                    !.msgHeaders = IncomingHeaders(m)]]
  /\ UNCHANGED <<lockHolder, sagaRow, sagaHistory, stat, headers, kinds, nonSaga>>

\* The message context of a running turn ends (deadline or cancellation).
\* Handle observes it where it waits in Lock; GetById, Send and Update under
\* an ended context fail, which their failures (drawn freely) cover; the
\* deferred Release runs whether or not the context has ended by then.
CtxExpire(m) ==
  /\ turn[m].pc \in {"lock", "release"}
  /\ turn[m].ctxLive
  /\ turn' = [turn EXCEPT ![m].ctxLive = FALSE]
  /\ UNCHANGED <<bstate, turns, lockHolder, sagaRow, sagaHistory, stat, headers, kinds, nonSaga>>

\* Handle that goes on when mutex.Lock returned an error.
HandleLock_IgnoreLockErr(m) ==
  /\ turn[m].pc = "lock"
  /\ LET uid == HeaderSagaUID(m) IN
     IF uid = NoUID
     THEN /\ turn' = [turn EXCEPT ![m].pc = "return", ![m].err = "MissingSagaUID"]
          /\ UNCHANGED lockHolder
     ELSE IF ~turn[m].ctxLive
     THEN /\ turn' = [turn EXCEPT ![m].pc = "load", ![m].locked = TRUE]
          /\ UNCHANGED lockHolder
     ELSE /\ MutexFree(uid)
          /\ lockHolder' = [lockHolder EXCEPT ![uid] = m]
          /\ turn' = [turn EXCEPT ![m].pc = "load", ![m].locked = TRUE]
  /\ UNCHANGED <<bstate, turns, sagaRow, sagaHistory, stat, headers, kinds, nonSaga>>

\* Handle: ExtractSagaUID, then mutex.Lock(ctx, sagaId).
HandleLock(m) ==
  /\ turn[m].pc = "lock"
  /\ LET uid == HeaderSagaUID(m) IN
     IF uid = NoUID
     THEN /\ turn' = [turn EXCEPT ![m].pc = "return", ![m].err = "MissingSagaUID"]
          /\ UNCHANGED lockHolder
     ELSE IF ~turn[m].ctxLive
     THEN /\ turn' = [turn EXCEPT ![m].pc = "return", ![m].err = "LockFailed"]
          /\ UNCHANGED lockHolder
     ELSE /\ MutexFree(uid)
          /\ lockHolder' = [lockHolder EXCEPT ![uid] = m]
          /\ turn' = [turn EXCEPT ![m].pc = "load", ![m].locked = TRUE]
  /\ UNCHANGED <<bstate, turns, sagaRow, sagaHistory, stat, headers, kinds, nonSaga>>

\* Handle: sagaStore.GetById, the not-found and completed checks, Progress().
HandleGetById(m) ==
  /\ turn[m].pc = "load"
  /\ LET uid == HeaderSagaUID(m) IN
     \E storeOk \in BOOLEAN :
          IF ~storeOk
          THEN turn' = [turn EXCEPT ![m].pc = "release", ![m].err = "StoreError"]
          ELSE IF uid \notin StoredSagas
          THEN turn' = [turn EXCEPT ![m].pc = "release", ![m].err = "SagaNotFound"]
          ELSE IF StatusCompleted(sagaRow[uid].status)
          THEN turn' = [turn EXCEPT ![m].pc = "release",
                                    ![m].loaded = sagaRow[uid].status,
                                    ![m].err = "SagaAlreadyCompleted"]
          ELSE turn' = [turn EXCEPT ![m].pc = "handle",
                                    ![m].loaded = sagaRow[uid].status,
                                    ![m].status = Progress(sagaRow[uid].status),
                                    ![m].parentID = sagaRow[uid].parentID,
                                    ![m].history = sagaHistory[uid]]
  /\ UNCHANGED <<bstate, turns, lockHolder, sagaRow, sagaHistory, stat, headers, kinds, nonSaga>>

\* Handle that logs the handler's error and goes on to the deliveries and Update.
HandleEvent_ErrFallsThrough(m) ==
  /\ turn[m].pc = "handle"
  /\ IF PayloadGK(m) \in EventHandlers
     THEN \E handlerOk \in BOOLEAN :
            IF ~handlerOk
            THEN /\ turn' = [turn EXCEPT ![m].pc = "update", ![m].handler = "err"]
                 /\ stat' = [stat EXCEPT ![m].handlerErrs = 1]
            ELSE \E op \in HandlerOps, n \in 0..MaxDeliveries :
                 /\ turn' = [turn EXCEPT ![m].pc = IF n > 0 THEN "send" ELSE "update",
                                         ![m].handler = "ok",
                                         ![m].status = ApplyOp(op, @),
                                         ![m].deliveries = n]
                 /\ UNCHANGED stat
     ELSE /\ turn' = [turn EXCEPT ![m].pc = "update", ![m].handler = "missing"]
          /\ UNCHANGED stat
  /\ UNCHANGED <<bstate, turns, lockHolder, sagaRow, sagaHistory, headers, kinds, nonSaga>>

\* Handle that returns an error when the saga has no handler for the event.
HandleEvent_MissingIsError(m) ==
  /\ turn[m].pc = "handle"
  /\ IF PayloadGK(m) \in EventHandlers
     THEN \E handlerOk \in BOOLEAN :
            IF ~handlerOk
            THEN /\ turn' = [turn EXCEPT ![m].pc = "release", ![m].handler = "err",
                                         ![m].err = "HandlerError"]
                 /\ stat' = [stat EXCEPT ![m].handlerErrs = 1]
            ELSE \E op \in HandlerOps, n \in 0..MaxDeliveries :
                 /\ turn' = [turn EXCEPT ![m].pc = IF n > 0 THEN "send" ELSE "update",
                                         ![m].handler = "ok",
                                         ![m].status = ApplyOp(op, @),
                                         ![m].deliveries = n]
                 /\ UNCHANGED stat
     ELSE /\ turn' = [turn EXCEPT ![m].pc = "release", ![m].handler = "missing",
                                  ![m].err = "NoHandler"]
          /\ UNCHANGED stat
  /\ UNCHANGED <<bstate, turns, lockHolder, sagaRow, sagaHistory, headers, kinds, nonSaga>>

\* Handle: the lookup in saga.EventHandlers() and the handler's run.
HandleEvent(m) ==
  /\ turn[m].pc = "handle"
  /\ IF PayloadGK(m) \in EventHandlers
     THEN \E handlerOk \in BOOLEAN :
            IF ~handlerOk
            THEN /\ turn' = [turn EXCEPT ![m].pc = "release", ![m].handler = "err",
                                         ![m].err = "HandlerError"]
                 /\ stat' = [stat EXCEPT ![m].handlerErrs = 1]
            ELSE \E op \in HandlerOps, n \in 0..MaxDeliveries :
                 /\ turn' = [turn EXCEPT ![m].pc = IF n > 0 THEN "send" ELSE "update",
                                         ![m].handler = "ok",
                                         ![m].status = ApplyOp(op, @),
                                         ![m].deliveries = n]
                 /\ UNCHANGED stat
     ELSE /\ turn' = [turn EXCEPT ![m].pc = "update", ![m].handler = "missing"]
          /\ UNCHANGED stat
  /\ UNCHANGED <<bstate, turns, lockHolder, sagaRow, sagaHistory, headers, kinds, nonSaga>>

\* Handle that sends each delivery with headers of its own, holding the
\* saga_uid only.
HandleSend_FreshHeaders(m) ==
  /\ turn[m].pc = "send"
  /\ LET h == AddSagaId(NoHeaders, HeaderSagaUID(m)) IN
     \E sendOk \in BOOLEAN :
          IF sendOk
          THEN turn' = [turn EXCEPT ![m].sent = @ + 1,
                                    ![m].out = Append(@,
                                       [payload |-> <<"delivery", turn[m].sent + 1>>,
                                        saga_uid |-> h.saga_uid, user |-> h.user,
                                        options |-> <<"options", turn[m].sent + 1>>]),
                                    ![m].pc = IF turn[m].sent + 1 = turn[m].deliveries
                                              THEN "update" ELSE "send"]
          ELSE turn' = [turn EXCEPT ![m].pc = "release", ![m].err = "SendFailed"]
  /\ UNCHANGED <<bstate, turns, lockHolder, sagaRow, sagaHistory, stat, headers, kinds, nonSaga>>

\* Handle: the next delivery: AddSagaId on the headers of the received
\* message with the instance's UID, an outgoing message with these headers
\* (saga_uid, user) and the delivery's payload, execCtx.Send with the
\* delivery's options.
HandleSend(m) ==
  /\ turn[m].pc = "send"
  /\ LET h == AddSagaId(turn[m].msgHeaders, HeaderSagaUID(m)) IN
     \E sendOk \in BOOLEAN :
          IF sendOk
          THEN turn' = [turn EXCEPT ![m].sent = @ + 1,
                                    ![m].msgHeaders = h,
                                    ![m].out = Append(@,
                                       [payload |-> <<"delivery", turn[m].sent + 1>>,
                                        saga_uid |-> h.saga_uid, user |-> h.user,
                                        options |-> <<"options", turn[m].sent + 1>>]),
                                    ![m].pc = IF turn[m].sent + 1 = turn[m].deliveries
                                              THEN "update" ELSE "send"]
          ELSE turn' = [turn EXCEPT ![m].pc = "release", ![m].msgHeaders = h,
                                    ![m].err = "SendFailed"]
  /\ UNCHANGED <<bstate, turns, lockHolder, sagaRow, sagaHistory, stat, headers, kinds, nonSaga>>

\* Handle: the history events of the turn are appended, then sagaStore.Update.
HandleUpdate(m) ==
  /\ turn[m].pc = "update"
  /\ LET uid == HeaderSagaUID(m)
         events == TurnHistory(m, turn[m])
     IN \E storeOk \in BOOLEAN :
          IF storeOk
          THEN /\ StoreUpdate(uid, turn[m].status, turn[m].parentID, events)
               /\ turn' = [turn EXCEPT ![m].pc = "child", ![m].history = events,
                                       ![m].updateCalled = TRUE, ![m].updated = TRUE]
               /\ stat' = [stat EXCEPT ![m].updates = @ + 1]
          ELSE /\ turn' = [turn EXCEPT ![m].pc = "release", ![m].history = events,
                                       ![m].updateCalled = TRUE, ![m].err = "UpdateFailed"]
               /\ UNCHANGED <<sagaRow, sagaHistory, stat>>
  /\ UNCHANGED <<bstate, turns, lockHolder, headers, kinds, nonSaga>>

\* Handle: after Update, the SagaChildCompletedEvent for the parent:
\* AddSagaId on the headers of the received message with the parent's UID,
\* an outgoing message with these headers, execCtx.Send; and the return.
HandleChildCompleted(m) ==
  /\ turn[m].pc = "child"
  /\ IF StatusCompleted(turn[m].status) /\ turn[m].parentID # NoUID
     THEN LET h == AddSagaId(turn[m].msgHeaders, turn[m].parentID) IN
          \E sendOk \in BOOLEAN :
            IF sendOk
            THEN turn' = [turn EXCEPT ![m].pc = "release", ![m].childSent = TRUE,
                                      ![m].msgHeaders = h,
                                      ![m].out = Append(@,
                                         [payload |-> <<"SagaChildCompletedEvent", HeaderSagaUID(m)>>,
                                          saga_uid |-> h.saga_uid, user |-> h.user,
                                          options |-> <<>>])]
            ELSE turn' = [turn EXCEPT ![m].pc = "release", ![m].msgHeaders = h,
                                      ![m].err = "ChildSendFailed"]
     ELSE turn' = [turn EXCEPT ![m].pc = "release"]
  /\ UNCHANGED <<bstate, turns, lockHolder, sagaRow, sagaHistory, stat, headers, kinds, nonSaga>>

\* Handle whose deferred Release runs under the message context: with the
\* context ended the Release fails, is logged, and the lock stays held.
HandleRelease_MsgCtx(m) ==
  /\ turn[m].pc = "release"
  /\ IF turn[m].ctxLive
     THEN MutexRelease(HeaderSagaUID(m), m)
     ELSE UNCHANGED lockHolder
  /\ turn' = [turn EXCEPT ![m].pc = "return", ![m].releases = @ + 1]
  /\ UNCHANGED <<bstate, turns, sagaRow, sagaHistory, stat, headers, kinds, nonSaga>>

\* Handle: the deferred mutex.Release under its own context.
HandleRelease(m) ==
  /\ turn[m].pc = "release"
  /\ MutexRelease(HeaderSagaUID(m), m)
  /\ turn' = [turn EXCEPT ![m].pc = "return", ![m].releases = @ + 1]
  /\ UNCHANGED <<bstate, turns, sagaRow, sagaHistory, stat, headers, kinds, nonSaga>>

\* processPackage: Process has returned; Ack when it returned no error. The
\* deferred processorCancel ends the context and the turn's locals are gone:
\* what stays of the turn is how it ended.
ProcessPackage(m) ==
  /\ turn[m].pc = "return"
  /\ bstate' = [bstate EXCEPT ![m] = IF turn[m].err = NoErr THEN "acked" ELSE "ready"]
  /\ turn' = [turn EXCEPT ![m] = [IdleTurn EXCEPT !.attempt = turn[m].attempt,
                                                  !.handler = turn[m].handler,
                                                  !.updateCalled = turn[m].updateCalled,
                                                  !.updated = turn[m].updated,
                                                  !.err = turn[m].err]]
  /\ UNCHANGED <<turns, lockHolder, sagaRow, sagaHistory, stat, headers, kinds, nonSaga>>

Next ==
  \E m \in Envelopes :
    \/ Deliver(m)
    \/ CtxExpire(m)
    \/ HandleLock(m)
    \/ HandleGetById(m)
    \/ HandleEvent(m)
    \/ HandleSend(m)
    \/ HandleUpdate(m)
    \/ HandleChildCompleted(m)
    \/ HandleRelease(m)
    \/ ProcessPackage(m)

\* ---------------------------------------------------------- the subscriber
\* The subscriber of one queue: the Run loop, the dispatcher's worker slots,
\* the tasks (processPackage) the workers run, and Stop.

\* packages the broker has for the queue in one behaviour
MaxPkgs == 3
\* the size of the dispatcher's pool (100 in the source)
maxTasksInProgress == 2

Pkgs == 1..MaxPkgs
NoPkg == 0

\* A dispatcher made with one worker more than maxTasksInProgress.
WorkersCount_OneMore == maxTasksInProgress + 1

\* newDispatcher(maxTasksInProgress): the number of worker slots, all of
\* them in the queue once the dispatcher has started
WorkersCount == maxTasksInProgress

SubInit ==
  /\ loop = [pc |-> "select", pkg |-> NoPkg]
  /\ pool = WorkersCount
  /\ pkgs = [p \in Pkgs |-> [st |-> "broker", processErr |-> "-", acks |-> 0,
                             submits |-> 0]]
  /\ env = [ctxDone |-> FALSE, signal |-> FALSE, shutdownExpired |-> FALSE,
            consumeOpen |-> TRUE]
  /\ stop = [pc |-> "-", busyAtCall |-> 0, waited |-> FALSE, disconnects |-> 0]

\* dispatcher.busyWorkers(): N - len(pool)
BusyWorkers == WorkersCount - pool

\* The packages whose processPackage is running.
InFlight == {p \in Pkgs : pkgs[p].st \in {"process", "ack"}}

\* amqpTransport.Consume, the consumer of the queue: a message of the broker
\* becomes an IncomingPkg and waits in the send on the unbuffered channel.
ConsumerReceive(p) ==
  /\ env.consumeOpen
  /\ pkgs[p].st = "broker"
  /\ \A q \in Pkgs : pkgs[q].st # "channel" /\ (q < p => pkgs[q].st # "broker")
  /\ pkgs' = [pkgs EXCEPT ![p].st = "channel"]
  /\ UNCHANGED <<loop, pool, env, stop, nonSub>>

\* amqpTransport.Consume: the consumer returns (its context is done or the
\* broker closed the delivery channel) and the consume channel is closed.
ConsumerStop ==
  /\ env.consumeOpen
  /\ \A q \in Pkgs : pkgs[q].st # "channel"
  /\ env' = [env EXCEPT !.consumeOpen = FALSE]
  /\ UNCHANGED <<loop, pool, pkgs, stop, nonSub>>

\* The context given to Run is cancelled.
CtxCancel ==
  /\ ~env.ctxDone
  /\ env' = [env EXCEPT !.ctxDone = TRUE]
  /\ UNCHANGED <<loop, pool, pkgs, stop, nonSub>>

\* The process receives os.Interrupt or SIGTERM.
KillSignal ==
  /\ ~env.signal
  /\ loop.pc # "returned"
  /\ env' = [env EXCEPT !.signal = TRUE]
  /\ UNCHANGED <<loop, pool, pkgs, stop, nonSub>>

\* shutdownCtx, created when Run starts, reaches gracefulShutdownTimeout.
ShutdownExpire ==
  /\ ~env.shutdownExpired
  /\ loop.pc # "returned"
  /\ env' = [env EXCEPT !.shutdownExpired = TRUE]
  /\ UNCHANGED <<loop, pool, pkgs, stop, nonSub>>

\* Run: a worker slot is received from the dispatcher's queue.
RunObtainWorker ==
  /\ loop.pc = "select"
  /\ pool > 0
  /\ pool' = pool - 1
  /\ loop' = [loop EXCEPT !.pc = "wait"]
  /\ UNCHANGED <<pkgs, env, stop, nonSub>>

\* Run that, on the ticker, gives the slot back also when it holds a package.
RunScheduleTimeout_DropsPkg ==
  /\ loop.pc \in {"wait", "submit"}
  /\ pool' = pool + 1
  /\ loop' = [loop EXCEPT !.pc = "select", !.pkg = NoPkg]
  /\ UNCHANGED <<pkgs, env, stop, nonSub>>

\* Run: no package within scheduleTimeout, the slot goes back to the pool.
RunScheduleTimeout ==
  /\ loop.pc = "wait"
  /\ pool' = pool + 1
  /\ loop' = [loop EXCEPT !.pc = "select"]
  /\ UNCHANGED <<pkgs, env, stop, nonSub>>

\* Run: a package is received from the consume channel.
RunTakePkg(p) ==
  /\ loop.pc = "wait"
  /\ pkgs[p].st = "channel"
  /\ pkgs' = [pkgs EXCEPT ![p].st = "taken"]
  /\ loop' = [loop EXCEPT !.pc = "submit", !.pkg = p]
  /\ UNCHANGED <<pool, env, stop, nonSub>>

\* Run: the consume channel is closed, Run returns.
RunConsumeClosed ==
  /\ loop.pc = "wait"
  /\ ~env.consumeOpen
  /\ loop' = [loop EXCEPT !.pc = "returned"]
  /\ UNCHANGED <<pool, pkgs, env, stop, nonSub>>

\* Run: the task of the package is sent on the slot's channel; the worker
\* receives it and starts task.do(), that is processPackage.
RunSubmitTask ==
  /\ loop.pc = "submit"
  /\ pkgs' = [pkgs EXCEPT ![loop.pkg].st = "process", ![loop.pkg].submits = @ + 1]
  /\ loop' = [loop EXCEPT !.pc = "select", !.pkg = NoPkg]
  /\ UNCHANGED <<pool, env, stop, nonSub>>

\* Run calls Stop(shutdownCtx).
StopCall ==
  /\ loop' = [loop EXCEPT !.pc = "stop"]
  /\ stop' = [stop EXCEPT !.pc = "poll", !.busyAtCall = BusyWorkers]
  /\ UNCHANGED <<pool, pkgs, env, nonSub>>

\* Run: the context is done.
RunCtxDone ==
  /\ loop.pc = "select"
  /\ env.ctxDone
  /\ StopCall

\* Run: a kill signal is received.
RunSignal ==
  /\ loop.pc = "select"
  /\ env.signal
  /\ StopCall

\* Stop: the loop condition finds tasks in progress and Stop waits in the select.
StopPoll ==
  /\ stop.pc = "poll"
  /\ BusyWorkers > 0
  /\ stop' = [stop EXCEPT !.pc = "select"]
  /\ UNCHANGED <<loop, pool, pkgs, env, nonSub>>

\* Stop that returns at the first tick of its ticker.
StopTick_Returns ==
  /\ stop.pc = "select"
  /\ stop' = [stop EXCEPT !.pc = "returned", !.waited = TRUE]
  /\ loop' = [loop EXCEPT !.pc = "returned"]
  /\ UNCHANGED <<pool, pkgs, env, nonSub>>

\* Stop: the ticker fires, the loop condition is read again.
StopTick ==
  /\ stop.pc = "select"
  /\ stop' = [stop EXCEPT !.pc = "poll", !.waited = TRUE]
  /\ UNCHANGED <<loop, pool, pkgs, env, nonSub>>

\* Stop that disconnects from the transport when its context has ended.
StopCtxDone_Disconnects ==
  /\ stop.pc = "select"
  /\ env.shutdownExpired
  /\ stop' = [stop EXCEPT !.pc = "returned", !.disconnects = @ + 1]
  /\ loop' = [loop EXCEPT !.pc = "returned"]
  /\ UNCHANGED <<pool, pkgs, env, nonSub>>

\* Stop: its context is done, Stop returns nil; Run returns.
StopCtxDone ==
  /\ stop.pc = "select"
  /\ env.shutdownExpired
  /\ stop' = [stop EXCEPT !.pc = "returned"]
  /\ loop' = [loop EXCEPT !.pc = "returned"]
  /\ UNCHANGED <<pool, pkgs, env, nonSub>>

\* Stop: no task in progress, transport.Disconnect is called and Stop returns
\* what it returned; Run returns.
StopDisconnect ==
  /\ stop.pc = "poll"
  /\ BusyWorkers = 0
  /\ stop' = [stop EXCEPT !.pc = "returned", !.disconnects = @ + 1]
  /\ loop' = [loop EXCEPT !.pc = "returned"]
  /\ UNCHANGED <<pool, pkgs, env, nonSub>>

\* processPackage that goes on to Ack when Process returned an error.
TaskProcess_AckOnErr(p) ==
  /\ pkgs[p].st = "process"
  /\ \E processOk \in BOOLEAN :
       pkgs' = [pkgs EXCEPT ![p].st = "ack",
                            ![p].processErr = IF processOk THEN "nil" ELSE "error"]
  /\ UNCHANGED <<loop, pool, env, stop, nonSub>>

\* processPackage: processor.Process returns; on an error the task returns.
TaskProcess(p) ==
  /\ pkgs[p].st = "process"
  /\ \E processOk \in BOOLEAN :
       pkgs' = [pkgs EXCEPT ![p].st = IF processOk THEN "ack" ELSE "finished",
                            ![p].processErr = IF processOk THEN "nil" ELSE "error"]
  /\ UNCHANGED <<loop, pool, env, stop, nonSub>>

\* processPackage: inPkg.Ack() is called (its error is only logged); the
\* task returns.
TaskAck(p) ==
  /\ pkgs[p].st = "ack"
  /\ pkgs' = [pkgs EXCEPT ![p].st = "finished", ![p].acks = @ + 1]
  /\ UNCHANGED <<loop, pool, env, stop, nonSub>>

\* The worker whose task has returned puts its slot back in the queue.
WorkerReenqueue(p) ==
  /\ pkgs[p].st = "finished"
  /\ pkgs' = [pkgs EXCEPT ![p].st = "returned"]
  /\ pool' = pool + 1
  /\ UNCHANGED <<loop, env, stop, nonSub>>

SubNext ==
  \/ \E p \in Pkgs : ConsumerReceive(p)
  \/ ConsumerStop
  \/ CtxCancel
  \/ KillSignal
  \/ ShutdownExpire
  \/ RunObtainWorker
  \/ RunScheduleTimeout
  \/ \E p \in Pkgs : RunTakePkg(p)
  \/ RunConsumeClosed
  \/ RunSubmitTask
  \/ RunCtxDone
  \/ RunSignal
  \/ StopPoll
  \/ StopTick
  \/ StopCtxDone
  \/ StopDisconnect
  \/ \E p \in Pkgs : TaskProcess(p)
  \/ \E p \in Pkgs : TaskAck(p)
  \/ \E p \in Pkgs : WorkerReenqueue(p)

\* ------------------------------------------------- Store.Update on its own
\* ids a history event can have
MaxEventId == 3
EventIds == 1..MaxEventId

\* The histories: sequences of events with ids of their own.
Histories ==
  {h \in UNION {[1..n -> [id : EventIds]] : n \in 0..MaxEventId} :
     \A i, j \in DOMAIN h : h[i].id = h[j].id => i = j}

\* The saga row: none, the row as it was stored, the row written from the
\* instance given to the call.
NoRow == "none"
StoredRow == "stored"
InstanceRow == "instance"

\* No transaction was begun.
NoTx == [row |-> NoRow, rows |-> <<>>, ids |-> {}, next |-> 0]

DbAtRest ==
  db = [pc |-> "call", op |-> "Update", row |-> StoredRow, rows |-> <<>>,
        events |-> <<>>, before |-> {},
        was |-> [row |-> StoredRow, rows |-> <<>>], tx |-> NoTx]

\* Update: any persisted history of the saga and any history of the instance
\* given to Update.  Create: the saga has no row yet, or it has one with any
\* history.
DbInit ==
  \E op \in {"Create", "Update"}, row \in {NoRow, StoredRow},
     rows \in Histories, events \in Histories :
    /\ op = "Update" => row = StoredRow
    /\ row = NoRow => rows = <<>>
    /\ op = "Create" => events = <<>>
    /\ db = [pc |-> "call", op |-> op, row |-> row, rows |-> rows,
             events |-> events, before |-> HistoryIds(rows),
             was |-> [row |-> row, rows |-> rows], tx |-> NoTx]

\* s.db.Begin(): the statements that follow see and change the
\* transaction's view, not what is persisted.
TxBegin ==
  /\ db.pc = "call"
  /\ db' = [db EXCEPT !.pc = "row",
                      !.tx = [row |-> db.row, rows |-> db.rows, ids |-> {}, next |-> 1]]
  /\ UNCHANGED nonDb

\* Create: INSERT of the saga row; a row with this id makes it fail.
CreateRow ==
  /\ db.pc = "row"
  /\ db.op = "Create"
  /\ db.tx.row = NoRow
  /\ db' = [db EXCEPT !.pc = "commit", !.tx.row = InstanceRow]
  /\ UNCHANGED nonDb

\* Update: UPDATE of the saga row.
UpdateRow ==
  /\ db.pc = "row"
  /\ db.op = "Update"
  /\ db' = [db EXCEPT !.pc = "select", !.tx.row = InstanceRow]
  /\ UNCHANGED nonDb

\* Update: SELECT of the persisted history ids and the scan of the rows; the
\* inserts are skipped when there are at least as many as the instance has
\* events.
UpdateSelectIds ==
  /\ db.pc = "select"
  /\ LET ids == HistoryIds(db.tx.rows) IN
     db' = [db EXCEPT !.pc = IF Cardinality(ids) < Len(db.events)
                             THEN "insert" ELSE "commit",
                      !.tx.ids = ids]
  /\ UNCHANGED nonDb

\* Update: the next event of the instance; it is inserted when its id was
\* not read.
UpdateInsert ==
  /\ db.pc = "insert"
  /\ LET i == db.tx.next
         e == db.events[i]
     IN  db' = [db EXCEPT !.pc = IF i = Len(db.events) THEN "commit" ELSE "insert",
                          !.tx.next = i + 1,
                          !.tx.rows = IF e.id \in db.tx.ids THEN @ ELSE Append(@, e)]
  /\ UNCHANGED nonDb

\* tx.Commit() of Create: what the transaction wrote becomes what is persisted.
CreateCommit ==
  /\ db.pc = "commit"
  /\ db.op = "Create"
  /\ db' = [db EXCEPT !.pc = "created", !.row = db.tx.row, !.rows = db.tx.rows]
  /\ UNCHANGED nonDb

\* mysqlStore.Update, committed.
UpdateCommit ==
  /\ db.pc = "commit"
  /\ db.op = "Update"
  /\ db' = [db EXCEPT !.pc = "updated", !.row = db.tx.row, !.rows = db.tx.rows]
  /\ UNCHANGED nonDb

\* mysqlStore.Create fails in Begin, in the INSERT or in Commit.
CreateRollback ==
  /\ db.pc \in {"call", "row", "commit"}
  /\ db.op = "Create"
  /\ db' = [db EXCEPT !.pc = "failed"]
  /\ UNCHANGED nonDb

\* Update that runs its statements on the connection, outside a
\* transaction: what was written before the failure stays.
UpdateRollback_NoTx ==
  /\ db.pc \in {"call", "row", "select", "insert", "commit"}
  /\ db.op = "Update"
  /\ db' = IF db.pc = "call"
           THEN [db EXCEPT !.pc = "failed"]
           ELSE [db EXCEPT !.pc = "failed", !.row = db.tx.row, !.rows = db.tx.rows]
  /\ UNCHANGED nonDb

\* mysqlStore.Update fails in a statement or in Commit: the transaction is
\* rolled back.
UpdateRollback ==
  /\ db.pc \in {"call", "row", "select", "insert", "commit"}
  /\ db.op = "Update"
  /\ db' = [db EXCEPT !.pc = "failed"]
  /\ UNCHANGED nonDb

DbNext ==
  \/ TxBegin
  \/ CreateRow
  \/ CreateCommit
  \/ CreateRollback
  \/ UpdateRow
  \/ UpdateSelectIds
  \/ UpdateInsert
  \/ UpdateCommit
  \/ UpdateRollback

\* ---------------------------------------------------------------- the codec
\* The JSON marshaller over a registry of known types, as the decoder's test
\* uses it: SomeTestType has plain fields, SomeTypeWithNestedType and
\* WrapperType hold another registered Object in Nested.

\* how deep the objects given to Marshal nest other objects
MaxNesting == 2

NestingTypes == {"SomeTypeWithNestedType", "WrapperType"}
KnownTypes == {"SomeTestType"} \cup NestingTypes
FieldValues == {-1, 1}

\* The TypeMeta of an object whose GroupKind the caller did not set.
NoGK == [group |-> "", kind |-> ""]

\* knownRegistry.AddKnownTypes(group, &T{}): the GroupKind of a known type
ObjectKind(type) == [group |-> "test", kind |-> type]

\* The registry knows the GroupKind.
Registered(gk) == \E t \in KnownTypes : ObjectKind(t) = gk

\* The registry's fresh value for a GroupKind: its type.
NewObject(gk) == CHOOSE t \in KnownTypes : ObjectKind(t) = gk

\* The objects of the known types, nesting at most d objects deep, each with
\* its GroupKind set by the caller or not.
RECURSIVE Objects(_)
Objects(d) ==
  {[type |-> "SomeTestType", gk |-> g, Value |-> v, Child |-> [Value |-> c]] :
     g \in {NoGK, ObjectKind("SomeTestType")}, v \in FieldValues, c \in FieldValues}
  \cup
  (IF d = 0 THEN {}
   ELSE UNION {{[type |-> t, gk |-> g, Value |-> v, Nested |-> o] :
                  g \in {NoGK, ObjectKind(t)}, v \in FieldValues, o \in Objects(d - 1)} :
               t \in NestingTypes})

NoObject == [type |-> "nil"]
NoWire == [groupKind |-> NoGK]
DecodeError == [type |-> "error"]

\* Marshal that stamps the GroupKind of the object it is given only.
SetGroupKind_TopOnly(obj) == [obj EXCEPT !.gk = ObjectKind(obj.type)]

\* Marshal, first half: the GroupKind of the object and of every object it
\* nests is set from the registry, in the object itself.
RECURSIVE SetGroupKind(_)
SetGroupKind(obj) ==
  IF obj.type \in NestingTypes
  THEN [obj EXCEPT !.gk = ObjectKind(obj.type), !.Nested = SetGroupKind(@)]
  ELSE [obj EXCEPT !.gk = ObjectKind(obj.type)]

\* Marshal, second half: the JSON of the object; the wire carries the
\* GroupKind and the fields, not the type.
RECURSIVE Encode(_)
Encode(obj) ==
  IF obj.type \in NestingTypes
  THEN [groupKind |-> obj.gk, Value |-> obj.Value, Nested |-> Encode(obj.Nested)]
  ELSE [groupKind |-> obj.gk, Value |-> obj.Value, Child |-> obj.Child]

\* Unmarshal: the GroupKind is read from the JSON, the registry gives a fresh
\* value of its type, the fields are deserialized into it, nested objects in
\* the same way; a GroupKind that is not registered is an error.
RECURSIVE Decode(_)
Decode(w) ==
  IF ~Registered(w.groupKind) THEN DecodeError
  ELSE LET t == NewObject(w.groupKind) IN
       IF t \in NestingTypes
       THEN LET n == Decode(w.Nested) IN
            IF n = DecodeError THEN DecodeError
            ELSE [type |-> t, gk |-> w.groupKind, Value |-> w.Value, Nested |-> n]
       ELSE [type |-> t, gk |-> w.groupKind, Value |-> w.Value, Child |-> w.Child]

CodecAtRest ==
  codec = [pc |-> "new", original |-> NoObject, instance |-> NoObject,
           wire |-> NoWire, decoded |-> NoObject]

\* The caller has built any object of a known type.
CodecInit ==
  \E obj \in Objects(MaxNesting) :
    codec = [pc |-> "new", original |-> obj, instance |-> obj,
             wire |-> NoWire, decoded |-> NoObject]

\* json.Marshal(instance) in the place of decoder.Marshal(instance): no
\* GroupKind is set.
Marshal_JsonOnly ==
  /\ codec.pc = "new"
  /\ codec' = [codec EXCEPT !.pc = "marshaled", !.wire = Encode(codec.instance)]
  /\ UNCHANGED nonCodec

\* decoder.Marshal(instance)
Marshal ==
  /\ codec.pc = "new"
  /\ codec' = [codec EXCEPT !.pc = "marshaled",
                            !.instance = SetGroupKind(@),
                            !.wire = Encode(SetGroupKind(codec.instance))]
  /\ UNCHANGED nonCodec

\* The GroupKinds a caller writes into the TypeMeta of an object before it
\* serializes the object itself: an empty kind with the group or without it,
\* a kind or a group the registry does not know, and the right one.
CallerGroupKinds(type) ==
  {[group |-> "test", kind |-> ""], NoGK,
   [group |-> "test", kind |-> "UnknownType"],
   [group |-> "other", kind |-> type],
   ObjectKind(type)}

\* json.Marshal(instance) of an object whose TypeMeta the caller filled in:
\* the wire carries the caller's GroupKind.
JsonMarshal ==
  /\ codec.pc = "new"
  /\ \E gk \in CallerGroupKinds(codec.instance.type) :
       codec' = [codec EXCEPT !.pc = "serialized",
                              !.instance = [@ EXCEPT !.gk = gk],
                              !.wire = Encode([codec.instance EXCEPT !.gk = gk])]
  /\ UNCHANGED nonCodec

\* decoder.Unmarshal that builds the value the caller expects when the
\* registry does not know the GroupKind of the wire.
Unmarshal_NoRegistryCheck ==
  /\ codec.pc \in {"marshaled", "serialized"}
  /\ codec' = [codec EXCEPT
                 !.pc = IF codec.pc = "marshaled" THEN "decoded" ELSE "unmarshaled",
                 !.decoded = IF Registered(codec.wire.groupKind)
                             THEN Decode(codec.wire)
                             ELSE Decode([codec.wire EXCEPT
                                            !.groupKind = ObjectKind(codec.instance.type)])]
  /\ UNCHANGED nonCodec

\* decoder.Unmarshal(marshaled): DecodeError stands for the nil object
\* returned with the error "... is not registered in KnownTypes".
Unmarshal ==
  /\ codec.pc \in {"marshaled", "serialized"}
  /\ codec' = [codec EXCEPT
                 !.pc = IF codec.pc = "marshaled" THEN "decoded" ELSE "unmarshaled",
                 !.decoded = Decode(codec.wire)]
  /\ UNCHANGED nonCodec

CodecNext == Marshal \/ JsonMarshal \/ Unmarshal

\* ----------------------------------------------------- the specifications
allvars == <<vars, subvars, db, codec>>

\* The saga engine's variables while the subscriber alone is observed.
SagaAtRest ==
  /\ Init
  /\ sagaRow["s1"].parentID = NoUID
  /\ headers["m2"] = "s1"
  /\ kinds["m2"] = "Foo"

\* The message turns of the saga engine.
SpecInit == Init /\ SubInit /\ DbAtRest /\ CodecAtRest
Spec == SpecInit /\ [][Next]_allvars

\* The subscriber: the Run loop, its workers and Stop.
SubSpecInit == SubInit /\ SagaAtRest /\ DbAtRest /\ CodecAtRest
SubSpec == SubSpecInit /\ [][SubNext]_allvars

\* The subscriber with Stop scheduled: the goroutine in Stop keeps running,
\* its ticker keeps firing, and a select with its context done and the ticker
\* both ready does not choose the ticker for ever.
FairSubSpec ==
  /\ SubSpec
  /\ WF_allvars(StopPoll)
  /\ WF_allvars(StopTick)
  /\ WF_allvars(StopDisconnect)
  /\ SF_allvars(StopCtxDone)

\* The subscriber with every goroutine scheduled: the consumer, the Run loop,
\* the workers and Stop keep running, and no select leaves a case that is
\* ready again and again unchosen for ever.  The broker, the signal and the
\* contexts are free to act or not.
FairConsumeSpec ==
  /\ FairSubSpec
  /\ WF_allvars(ConsumerStop)
  /\ WF_allvars(RunObtainWorker)
  /\ SF_allvars(\E p \in Pkgs : RunTakePkg(p))
  /\ SF_allvars(RunConsumeClosed)
  /\ WF_allvars(RunSubmitTask)
  /\ SF_allvars(RunCtxDone)
  /\ SF_allvars(RunSignal)
  /\ WF_allvars(\E p \in Pkgs : TaskProcess(p))
  /\ WF_allvars(\E p \in Pkgs : TaskAck(p))
  /\ WF_allvars(\E p \in Pkgs : WorkerReenqueue(p))

\* One call of Store.Create or Store.Update, for any persisted state and any
\* instance.
StoreSpecInit == DbInit /\ SagaAtRest /\ SubInit /\ CodecAtRest
StoreSpec == StoreSpecInit /\ [][DbNext]_allvars

\* One encode and decode of a registered payload.
CodecSpecInit == CodecInit /\ SagaAtRest /\ SubInit /\ DbAtRest
CodecSpec == CodecSpecInit /\ [][CodecNext]_allvars

\* ------------------------------------------------------------------ claims
Finished(m) == turn[m].pc \in {"return", "idle"}

\* The rows of the saga's persisted history that record envelope m.
HistoryOf(uid, m) == {i \in DOMAIN sagaHistory[uid] : sagaHistory[uid][i].traceUID = m}

\* C1: for every saga UID at most one turn at a time is between its
\* successful mutex.Lock and its Release, and that turn is the lock's holder;
\* so the GetById .. Update sections of two turns of a saga never overlap.
C1_OneTurnPerSaga ==
  /\ \A m \in Envelopes : turn[m].pc \in InCritical => lockHolder[HeaderSagaUID(m)] = m
  /\ \A m, k \in Envelopes :
       (m # k /\ turn[m].pc \in InCritical /\ turn[k].pc \in InCritical)
         => HeaderSagaUID(m) # HeaderSagaUID(k)

\* A turn is inside its critical section while another turn for the same saga
\* waits in Lock.
C1_Witness ==
  /\ turn["m1"].pc \in {"handle", "send", "update"}
  /\ turn["m2"].pc = "lock"
  /\ HeaderSagaUID("m1") = HeaderSagaUID("m2")

\* C2: once no turn of an envelope is running, the envelope is acked if and
\* only if the persisted history of its saga holds the envelope.
C2_AckedIffInHistory ==
  \A m \in Envelopes :
    (turn[m].pc = "idle" /\ HeaderSagaUID(m) \in StoredSagas)
      => (bstate[m] = "acked" <=> HistoryOf(HeaderSagaUID(m), m) # {})

\* C3: every step keeps every persisted history row as it is: the rows (and so
\* the event ids) persisted before a Store.Update are among those after it.
C3_HistoryAppendOnly ==
  [][\A s \in StoredSagas :
       /\ Len(sagaHistory[s]) <= Len(sagaHistory'[s])
       /\ \A i \in DOMAIN sagaHistory[s] : sagaHistory'[s][i] = sagaHistory[s][i]]_vars

\* Two turns have each persisted their events in the saga's history.
C3_Witness ==
  /\ stat["m1"].updates = 1
  /\ stat["m2"].updates = 1
  /\ Len(sagaHistory["s1"]) >= 2

C5_TerminalTurnRejected ==
  \A m \in Envelopes :
    turn[m].loaded \in Terminal
      => /\ turn[m].pc \in {"release", "return"}
         /\ turn[m].err = "SagaAlreadyCompleted"
         /\ turn[m].handler = "-"
         /\ turn[m].sent = 0
         /\ ~turn[m].updateCalled

C10_CompletedIsAcked ==
  \A m \in Envelopes :
    (turn[m].pc = "idle" /\ turn[m].err = "SagaAlreadyCompleted") => bstate[m] = "acked"

\* C11: the subscriber calls Ack for a package at most once and only after
\* Process returned nil for it; a package whose Process returned an error is
\* never acked; a task whose Process returned nil has called Ack exactly once
\* when it returns.
C11_AckOnlyAfterProcessOk ==
  \A p \in Pkgs :
    /\ pkgs[p].acks <= 1
    /\ pkgs[p].acks = 1 => pkgs[p].processErr = "nil"
    /\ pkgs[p].processErr = "error" => pkgs[p].acks = 0
    /\ pkgs[p].st \in {"broker", "channel", "taken", "process", "ack"} => pkgs[p].acks = 0
    /\ (pkgs[p].st \in {"finished", "returned"} /\ pkgs[p].processErr = "nil")
         => pkgs[p].acks = 1

\* One task has returned after Process failed, another after Process
\* succeeded and the package was acked.
C11_Witness ==
  /\ pkgs[1].st = "returned" /\ pkgs[1].processErr = "error"
  /\ pkgs[2].st = "returned" /\ pkgs[2].processErr = "nil" /\ pkgs[2].acks = 1

\* C12: the number of processPackage invocations running at the same time
\* never exceeds maxTasksInProgress.
C12_AtMostNTurns == Cardinality(InFlight) <= maxTasksInProgress

\* maxTasksInProgress turns are running while one more package has arrived.
C12_Witness ==
  /\ Cardinality(InFlight) = maxTasksInProgress
  /\ \E p \in Pkgs : pkgs[p].st = "channel"

\* The worker slots that run a task or have not yet returned to the queue.
WorkersWithTask == {p \in Pkgs : pkgs[p].st \in {"process", "ack", "finished"}}

C14_StopReturnsWhenIdleOrExpired ==
  /\ []((stop.pc # "-" /\ stop.busyAtCall = 0) => (~stop.waited /\ stop.pc # "select"))
  /\ [](stop.pc = "returned" => (BusyWorkers = 0 \/ env.shutdownExpired))
  /\ ((stop.pc \in {"poll", "select"} /\ (BusyWorkers = 0 \/ env.shutdownExpired))
        ~> stop.pc = "returned")

\* Stop was called with tasks in flight, waited, and returned after the last
\* worker went back to the queue, before its context ended.
C14_Witness ==
  /\ stop.pc = "returned"
  /\ stop.busyAtCall > 0
  /\ stop.waited
  /\ BusyWorkers = 0
  /\ ~env.shutdownExpired

\* C15: once Stop has called transport.Disconnect no processPackage is
\* running: every task that was submitted, before the shutdown or at any
\* time, has returned and its worker is back in the queue.
C15_DisconnectAfterTasks ==
  stop.disconnects > 0 =>
    /\ InFlight = {}
    /\ \A p \in Pkgs : pkgs[p].submits > 0 => pkgs[p].st = "returned"

\* Stop was called with every worker busy, and has disconnected after their
\* tasks returned.
C15_Witness ==
  /\ stop.disconnects = 1
  /\ stop.busyAtCall = maxTasksInProgress
  /\ Cardinality({p \in Pkgs : pkgs[p].st = "returned"}) >= maxTasksInProgress

\* C16: a Stop that has returned has called transport.Disconnect.
C16_StopEndsWithDisconnect ==
  stop.pc = "returned" => stop.disconnects = 1

\* The messages a turn has sent that are a SagaChildCompletedEvent.
ChildCompletedSent(m) ==
  {i \in DOMAIN turn[m].out : turn[m].out[i].payload[1] = "SagaChildCompletedEvent"}

\* C17: after its Store.Update succeeded a turn sends a SagaChildCompletedEvent
\* only if the instance is Completed and has a parent, sends one whenever that
\* is so and Handle returns no error, and the message sent has ParentUID both
\* in its saga_uid header and in the saga_uid field of its payload.
C17_ChildCompletedToParent ==
  \A m \in Envelopes :
    (turn[m].updated /\ turn[m].pc \in {"release", "return"}) =>
      LET completed == StatusCompleted(turn[m].status) /\ turn[m].parentID # NoUID IN
      /\ turn[m].childSent => completed
      /\ (completed /\ turn[m].err = NoErr) => turn[m].childSent
      /\ Cardinality(ChildCompletedSent(m)) = (IF turn[m].childSent THEN 1 ELSE 0)
      /\ \A i \in ChildCompletedSent(m) :
           /\ turn[m].out[i].saga_uid = turn[m].parentID
           /\ turn[m].out[i].payload[2] = turn[m].parentID

\* C18: when the turn that completed a saga with a parent has sent the
\* SagaChildCompletedEvent, the persisted history of the saga holds the
\* received event and the SagaChildCompletedEvent.
C18_ChildCompletedInHistory ==
  \A m \in Envelopes :
    (turn[m].childSent /\ turn[m].pc = "return") =>
      LET rows == sagaHistory[HeaderSagaUID(m)] IN
      /\ HistoryOf(HeaderSagaUID(m), m) # {}
      /\ \E i \in DOMAIN rows :
           /\ rows[i].origin = ""
           /\ rows[i].payload[1] = "SagaChildCompletedEvent"

\* C19: after Update committed, the persisted ids are the ids persisted
\* before together with the ids of instance.HistoryEvents(), each persisted
\* once.
C19_UpdateInsertsMissingIds ==
  db.pc = "updated" =>
    /\ HistoryIds(db.rows) = db.before \cup HistoryIds(db.events)
    /\ Len(db.rows) = Cardinality(HistoryIds(db.rows))

\* Two objects of the same type with equal fields, whatever their GroupKinds.
RECURSIVE SameButGroupKind(_, _)
SameButGroupKind(a, b) ==
  /\ a.type = b.type
  /\ a.type \in KnownTypes
  /\ a.Value = b.Value
  /\ IF a.type \in NestingTypes
     THEN SameButGroupKind(a.Nested, b.Nested)
     ELSE a.Child = b.Child

\* The object and every object it nests carry the registry's GroupKind of
\* their type.
RECURSIVE StampedFromRegistry(_)
StampedFromRegistry(obj) ==
  /\ obj.gk = ObjectKind(obj.type)
  /\ obj.type \in NestingTypes => StampedFromRegistry(obj.Nested)

C22_TurnEventsInOrder ==
  [][\A m \in Envelopes :
       (turn[m].pc = "update" /\ turn'[m].pc = "child") =>
         LET before == turn[m].history
             after == turn'[m].history
             k == Len(before)
             n == turn[m].deliveries
         IN  /\ Len(after) = k + 1 + n
             /\ SubSeq(after, 1, k) = before
             /\ after[k + 1].payload = PayloadGK(m)
             /\ after[k + 1].origin = "queue"
             /\ after[k + 1].traceUID = m
             /\ Len(turn[m].out) = n
             /\ \A i \in 1..n : after[k + 1 + i].payload = turn[m].out[i].payload
             /\ \A i, j \in 1..Len(after) : i # j => after[i].id # after[j].id]_allvars

\* A turn with the most deliveries on an instance that already had history
\* has appended its events and updated the store.
C22_Witness ==
  \E m \in Envelopes :
    /\ turn[m].pc = "child"
    /\ turn[m].updated
    /\ turn[m].deliveries = MaxDeliveries
    /\ Len(turn[m].history) > MaxDeliveries + 1

\* C23: whatever step of Create or Update fails, and at every step before
\* the commit, the persisted saga row and history rows are those from before
\* the call; a committed Update shows the overwritten row together with all
\* its history inserts, a committed Create the new row.
C23_StoreCallIsAtomic ==
  /\ db.pc \notin {"updated", "created"} =>
       /\ db.row = db.was.row
       /\ db.rows = db.was.rows
  /\ db.pc = "updated" =>
       /\ db.row = InstanceRow
       /\ db.rows = InsertHistory(db.was.rows, db.events)
  /\ db.pc = "created" =>
       /\ db.row = InstanceRow
       /\ db.rows = db.was.rows

\* Update failed after its transaction had overwritten the row and inserted
\* a history event.
C23_Witness ==
  /\ db.pc = "failed"
  /\ db.op = "Update"
  /\ db.tx.row = InstanceRow
  /\ Len(db.tx.rows) > Len(db.was.rows)

\* The context given to Consume is done: Run's context was cancelled, or Run
\* returned and its deferred consumerCancel ran.
ConsumerCtxDone == env.ctxDone \/ loop.pc = "returned"

\* C24: once the context given to Consume is cancelled, the consumer of the
\* queue terminates and the consume channel is eventually closed, whatever
\* the receiver of the channel does.
C24_CancelClosesConsumeChannel ==
  ConsumerCtxDone ~> ~env.consumeOpen

\* Where the subscriber is in its lifecycle, Run having started: Running
\* while the Run loop schedules, Draining while Run is in Stop, Disconnected
\* once Run has returned with the transport disconnected, Ended once Run
\* has returned without that.
Lifecycle ==
  IF loop.pc \in {"select", "wait", "submit"} THEN "Running"
  ELSE IF loop.pc = "stop" THEN "Draining"
  ELSE IF stop.disconnects > 0 THEN "Disconnected"
  ELSE "Ended"

\* C25: the lifecycle changes only from Running to Draining and from
\* Draining to Disconnected: however Run ends it has passed through Stop
\* and the disconnect, and Running is never entered again.
C25_LifecycleOrder ==
  [][Lifecycle' # Lifecycle =>
       <<Lifecycle, Lifecycle'>> \in {<<"Running", "Draining">>,
                                     <<"Draining", "Disconnected">>}]_allvars

\* C26: a turn that loaded an instance whose status has no Progress edge
\* (Created, Compensating) fails with InvalidStateTransition where Handle
\* calls Progress(): the handler is not run, the status stays as loaded,
\* Update is not called and the envelope is not acked.
C26_NoProgressEdgeFailsTurn ==
  \A m \in Envelopes :
    turn[m].loaded \in {"Created", "Compensating"}
      => /\ turn[m].pc \in {"release", "return"}
         /\ turn[m].err = "InvalidStateTransition"
         /\ turn[m].status = turn[m].loaded
         /\ turn[m].handler = "-"
         /\ ~turn[m].updateCalled
         /\ bstate[m] # "acked"

\* C27: a turn for an envelope without saga_uid header fails with
\* MissingSagaUID before any mutex or store access, and once processPackage
\* has returned the envelope has been negatively acknowledged.
C27_MissingSagaUIDIsNacked ==
  \A m \in Envelopes :
    turn[m].err = "MissingSagaUID"
      => /\ HeaderSagaUID(m) = NoUID
         /\ ~turn[m].locked
         /\ turn[m].releases = 0
         /\ turn[m].loaded = "-"
         /\ ~turn[m].updateCalled
         /\ \A u \in SagaUIDs : lockHolder[u] # m
         /\ turn[m].pc = "idle" => bstate[m] = "nacked"

\* C28: the messages a turn has sent for its deliveries are, in the order
\* the handler submitted them, messages with the delivery's payload, the
\* headers of the received envelope with saga_uid set to the UID of the
\* instance, and the delivery's own options.
C28_DeliveriesCarryEnvelopeHeaders ==
  \A m \in Envelopes :
    /\ turn[m].sent <= Len(turn[m].out)
    /\ \A i \in 1..turn[m].sent :
         turn[m].out[i] = [payload |-> <<"delivery", i>>,
                           saga_uid |-> HeaderSagaUID(m),
                           user |-> IncomingHeaders(m).user,
                           options |-> <<"options", i>>]

\* A turn has sent the most deliveries.
C28_Witness ==
  \E m \in Envelopes :
    /\ turn[m].sent = MaxDeliveries
    /\ turn[m].pc = "update"

\* C29: while Handle runs and when it has returned, the headers of the
\* received message are those the envelope was delivered with.
C29_EnvelopeHeadersUnchanged ==
  \A m \in Envelopes :
    turn[m].pc # "idle" => turn[m].msgHeaders = IncomingHeaders(m)

\* The worker slots the Run loop holds: the one it received from the queue
\* and has neither given a task nor put back, while Run is in its loop.
SlotsHeldByRun == IF loop.pc \in {"wait", "submit"} THEN 1 ELSE 0

\* C30: the slots in the pool, the slot the Run loop holds and the slots
\* whose worker has a task are together maxTasksInProgress slots at every
\* moment: a slot Run took is given a task or is back in the pool when Run
\* leaves its inner select, also when it leaves on a closed consume channel.
C30_SlotsConserved ==
  pool + SlotsHeldByRun + Cardinality(WorkersWithTask) = WorkersCount

\* C31: the deadline of the context Run gives to Stop does not expire before
\* the shutdown is triggered and Stop is called, so a Stop that finds tasks
\* in progress returns on its deadline only after it has waited for them
\* since the trigger.
C31_DeadlineStartsAtShutdown ==
  /\ env.shutdownExpired => stop.pc # "-"
  /\ (stop.pc = "returned" /\ stop.busyAtCall > 0 /\ stop.disconnects = 0)
       => stop.waited

====
